---- MODULE Spec2Model ----
(***************************************************************************)
(* fbone/user/models.py: the DenormalizedText column type (a set of        *)
(* primary keys stored as one separator-joined text) and the follow graph  *)
(* that User keeps in two such columns, followers and following.           *)
(*                                                                         *)
(* Python values are modelled as follows.                                  *)
(*   - A str is a sequence of one-character strings.                       *)
(*   - A value that may be None is an option: None is <<>>, any other      *)
(*     value x is <<x>>.                                                   *)
(*   - An element of a set is tagged with its Python type: an int n is     *)
(*     [t |-> "int", v |-> <<n>>], a str s is [t |-> "str", v |-> s].       *)
(*   - A call either returns or raises; the outcome is a record with a     *)
(*     field raised naming the exception ("" when the call returned).      *)
(***************************************************************************)
EXTENDS Integers, Sequences, FiniteSets, TLC

\* ------------------------------------------------------------------ bounds

\* Number of User rows.
NumUsers == 2
\* Integers bound as set elements range over 0..MaxInt.
MaxInt == 12
\* Largest number of elements of a set of ints handed to process_bind_param.
MaxSetSize == 3
\* Largest number of elements of a set of strs handed to process_bind_param.
MaxStrSetSize == 2
\* Longest str element handed to process_bind_param.
MaxItemLen == 3
\* Longest column text handed to process_result_value.
MaxTextLen == 4

\* ------------------------------------------------------------ Python values

None == <<>>
Some(x) == <<x>>
IsNone(o) == o = <<>>
Get(o) == o[1]

IntItem(n) == [t |-> "int", v |-> <<n>>]
StrItem(s) == [t |-> "str", v |-> s]

Digits == <<"0", "1", "2", "3", "4", "5", "6", "7", "8", "9">>
DigitChars == {Digits[i] : i \in 1..10}
DigitValue(c) == (CHOOSE i \in 1..10 : Digits[i] = c) - 1
\* The characters str.strip() removes and int() ignores around a literal.
Whitespace == {" ", "\t", "\n", "\r"}

\* str(n) for a natural number n: its decimal digits, no leading zero.
RECURSIVE NatStr(_)
NatStr(n) ==
    IF n < 10 THEN <<Digits[n + 1]>>
    ELSE Append(NatStr(n \div 10), Digits[(n % 10) + 1])

\* str(item): an int prints in decimal with a leading "-" when negative; a str
\* is itself.
PyStr(item) ==
    IF item.t = "int"
    THEN LET n == item.v[1] IN IF n < 0 THEN <<"-">> \o NatStr(-n) ELSE NatStr(n)
    ELSE item.v

\* s.strip(): s without its leading and trailing whitespace.
RECURSIVE LStrip(_)
LStrip(s) ==
    IF s # <<>> /\ Head(s) \in Whitespace THEN LStrip(Tail(s)) ELSE s
RECURSIVE RStrip(_)
RStrip(s) ==
    IF s # <<>> /\ s[Len(s)] \in Whitespace
    THEN RStrip(SubSeq(s, 1, Len(s) - 1)) ELSE s
Strip(s) == LStrip(RStrip(s))

\* separator.join(items) for a list of strs.
RECURSIVE Join(_, _)
Join(sep, items) ==
    IF items = <<>> THEN <<>>
    ELSE IF Len(items) = 1 THEN items[1]
    ELSE items[1] \o sep \o Join(sep, Tail(items))

\* s.split(sep) for a one-character separator: the pieces between the
\* occurrences of sep, empty pieces included; "".split(sep) is [""].
RECURSIVE Split(_, _)
Split(s, sep) ==
    IF \A i \in 1..Len(s) : <<s[i]>> # sep THEN <<s>>
    ELSE LET k == CHOOSE i \in 1..Len(s) :
                      /\ <<s[i]>> = sep
                      /\ \A j \in 1..(i - 1) : <<s[j]>> # sep
         IN <<SubSeq(s, 1, k - 1)>> \o Split(SubSeq(s, k + 1, Len(s)), sep)

\* The value of a non-empty run of decimal digits.
RECURSIVE DigitsValue(_)
DigitsValue(ds) ==
    IF Len(ds) = 1 THEN DigitValue(ds[1])
    ELSE 10 * DigitsValue(SubSeq(ds, 1, Len(ds) - 1)) + DigitValue(ds[Len(ds)])

\* int(tok): surrounding whitespace is ignored, then an optional sign and at
\* least one decimal digit; anything else raises ValueError, whose message
\* quotes tok.
PyInt(tok) ==
    LET body == Strip(tok)
        signed == body # <<>> /\ body[1] \in {"-", "+"}
        ds == IF signed THEN Tail(body) ELSE body
    IN IF ds # <<>> /\ \A i \in 1..Len(ds) : ds[i] \in DigitChars
       THEN [raised |-> "", value |-> IntItem(IF signed /\ body[1] = "-"
                                              THEN 0 - DigitsValue(ds)
                                              ELSE DigitsValue(ds))]
       ELSE [raised |-> "ValueError", value |-> StrItem(tok)]

\* self.coerce(tok) for the two coercions modelled, int (the default) and str.
Coerce(coerce, tok) ==
    IF coerce = "int" THEN PyInt(tok)
    ELSE [raised |-> "", value |-> StrItem(tok)]

\* ------------------------------------------------------ DenormalizedText

\* The iteration orders of a set: Python fixes none, so "for item in value"
\* may visit the elements in any order.
Orders(S) ==
    {o \in [1..Cardinality(S) -> S] : \A i, j \in 1..Cardinality(S) : o[i] = o[j] => i = j}

\* [str(item).strip() for item in value], visiting value in the order given.
StripAll(order) == [i \in 1..Len(order) |-> Strip(PyStr(order[i]))]

NonEmpty(s) == s # <<>>

\* Faulty variant of process_bind_param: the pieces are concatenated with no
\* separator between them.
BindParamUnseparated(sep, value, order) ==
    IF ~IsNone(value)
    THEN Some(Join(<<>>, SelectSeq(StripAll(order), NonEmpty)))
    ELSE value

\* DenormalizedText.process_bind_param: None stays None; a set becomes the
\* non-empty stripped string forms of its elements joined by the separator.
process_bind_param(sep, value, order) ==
    IF ~IsNone(value)
    THEN Some(Join(sep, SelectSeq(StripAll(order), NonEmpty)))
    ELSE value

\* Faulty variant of CoerceAll: a piece whose coercion raises is left out.
RECURSIVE CoerceAllSkipping(_, _)
CoerceAllSkipping(coerce, tokens) ==
    IF tokens = <<>> THEN [raised |-> "", value |-> {}, token |-> <<>>]
    ELSE LET c == Coerce(coerce, Head(tokens))
             rest == CoerceAllSkipping(coerce, Tail(tokens))
         IN IF c.raised # "" THEN rest
            ELSE [rest EXCEPT !.value = rest.value \cup {c.value}]

\* set(self.coerce(item) for item in tokens): the coercions run in order and
\* the first one that raises ends the call with its exception.
RECURSIVE CoerceAll(_, _)
CoerceAll(coerce, tokens) ==
    IF tokens = <<>> THEN [raised |-> "", value |-> {}, token |-> <<>>]
    ELSE LET c == Coerce(coerce, Head(tokens)) IN
         IF c.raised # ""
         THEN [raised |-> c.raised, value |-> {}, token |-> Head(tokens)]
         ELSE LET rest == CoerceAll(coerce, Tail(tokens)) IN
              IF rest.raised # "" THEN rest
              ELSE [rest EXCEPT !.value = rest.value \cup {c.value}]

\* Faulty variant of process_result_value: only None gives the empty set
\* ("if value is None" for "if not value").
ResultValueNoneOnly(coerce, sep, value) ==
    IF IsNone(value)
    THEN [raised |-> "", value |-> {}, token |-> <<>>]
    ELSE CoerceAll(coerce, Split(Get(value), sep))

\* DenormalizedText.process_result_value: None and the empty text give the
\* empty set; any other text is split on the separator and every piece coerced.
process_result_value(coerce, sep, value) ==
    IF IsNone(value) \/ Get(value) = <<>>
    THEN [raised |-> "", value |-> {}, token |-> <<>>]
    ELSE CoerceAll(coerce, Split(Get(value), sep))

\* The configurations modelled: __init__'s defaults and one other of each.
Coercions == {"int", "str"}
Separators == {<<" ">>, <<",">>}

\* All strings over a set of characters, up to a length.
RECURSIVE StringsUpTo(_, _)
StringsUpTo(chars, n) ==
    IF n = 0 THEN {<<>>}
    ELSE LET shorter == StringsUpTo(chars, n - 1) IN
         shorter \cup {Append(s, c) : s \in shorter, c \in chars}

\* All subsets of S with at most n elements.
RECURSIVE SubsetsUpTo(_, _)
SubsetsUpTo(S, n) ==
    IF n = 0 THEN {{}}
    ELSE LET smaller == SubsetsUpTo(S, n - 1) IN
         smaller \cup {T \cup {x} : T \in smaller, x \in S}

\* Values bound to a column: None, a set of ints, or a set of strs.
IntPool == {IntItem(n) : n \in (0 - 1)..MaxInt}
StrPool == {StrItem(s) : s \in StringsUpTo({"a", " "}, MaxItemLen)}
ParamValues ==
    {None} \cup {Some(S) : S \in SubsetsUpTo(IntPool, MaxSetSize)}
           \cup {Some(S) : S \in SubsetsUpTo(StrPool, MaxStrSetSize)}

\* Texts found in a column: None, every short text over a few characters, and
\* a longer one holding a piece that is no integer.
TextValues ==
    {None} \cup {Some(s) : s \in StringsUpTo({"1", "2", "x", " ", ",", "-"}, MaxTextLen)}
           \cup {Some(<<"1", "2", " ", "x", " ", "7">>)}

\* ------------------------------------------------------------------- User

\* User.id of the rows: positive primary keys, of one and of two digits.
Users == {6 * i + 1 : i \in 1..NumUsers}
Id(u) == IntItem(u)

VARIABLES
    followers,   \* User.followers of every row: None or a set of ids
    following,   \* User.following of every row: None or a set of ids
    last,        \* the latest call: its name, arguments and outcome
    pre,         \* both columns of every row as they were before the latest call
    pre2,        \* the same before the call preceding it, when last.prior names it
    coerce,      \* DenormalizedText.coerce
    separator,   \* DenormalizedText.separator
    param,       \* the value handed to process_bind_param
    text,        \* the column text
    result,      \* the outcome of process_result_value
    step         \* how far a value has travelled through the column type

vars == <<followers, following, last, pre, pre2, coerce, separator, param, text, result, step>>
graphVars == <<followers, following, last, pre, pre2>>
codecVars == <<coerce, separator, param, text, result, step>>

Columns == [followers |-> followers, following |-> following]

\* User.num_followers: len(self.followers) when the column is truthy (neither
\* None nor empty), else 0.
num_followers(col) ==
    IF ~IsNone(col) /\ Get(col) # {}
    THEN [raised |-> "", value |-> Cardinality(Get(col))]
    ELSE [raised |-> "", value |-> 0]

\* User.num_following: len(self.following); len(None) raises TypeError.
num_following(col) ==
    IF IsNone(col)
    THEN [raised |-> "TypeError", value |-> 0]
    ELSE [raised |-> "", value |-> Cardinality(Get(col))]

\* Faulty variant of follow: the second statement is missing.
FollowFirstWriteOnly(cols, self, user) ==
    IF IsNone(cols.followers[user])
    THEN [cols |-> cols, raised |-> "AttributeError"]
    ELSE [cols |-> [cols EXCEPT !.followers[user] = Some(Get(@) \cup {Id(self)})],
          raised |-> ""]

\* Faulty variant of follow: an id already present is removed instead of kept.
FollowToggling(cols, self, user) ==
    IF IsNone(cols.followers[user])
    THEN [cols |-> cols, raised |-> "AttributeError"]
    ELSE LET c1 == [cols EXCEPT !.followers[user] =
                        IF Id(self) \in Get(@) THEN Some(Get(@) \ {Id(self)})
                        ELSE Some(Get(@) \cup {Id(self)})]
         IN
         IF IsNone(c1.following[self])
         THEN [cols |-> c1, raised |-> "AttributeError"]
         ELSE [cols |-> [c1 EXCEPT !.following[self] =
                            IF Id(user) \in Get(@) THEN Some(Get(@) \ {Id(user)})
                            ELSE Some(Get(@) \cup {Id(user)})],
               raised |-> ""]

\* User.follow, statement by statement: a column that is None has no add
\* (AttributeError), and what ran before the exception stays done.
follow(cols, self, user) ==
    IF IsNone(cols.followers[user])
    THEN [cols |-> cols, raised |-> "AttributeError"]
    ELSE LET c1 == [cols EXCEPT !.followers[user] = Some(Get(@) \cup {Id(self)})] IN
         IF IsNone(c1.following[self])
         THEN [cols |-> c1, raised |-> "AttributeError"]
         ELSE [cols |-> [c1 EXCEPT !.following[self] = Some(Get(@) \cup {Id(user)})],
               raised |-> ""]

\* Faulty variant of unfollow: user.followers is left alone.
UnfollowFollowingOnly(cols, self, user) ==
    IF IsNone(cols.following[self])
    THEN [cols |-> cols, raised |-> "TypeError"]
    ELSE [cols |-> [cols EXCEPT !.following[self] = Some(Get(@) \ {Id(user)})],
          raised |-> ""]

\* Faulty variant of unfollow: remove is called without the membership test,
\* and set.remove raises KeyError for an element that is not there.
UnfollowUnguarded(cols, self, user) ==
    IF IsNone(cols.followers[user])
    THEN [cols |-> cols, raised |-> "AttributeError"]
    ELSE IF Id(self) \notin Get(cols.followers[user])
    THEN [cols |-> cols, raised |-> "KeyError"]
    ELSE LET c1 == [cols EXCEPT !.followers[user] = Some(Get(@) \ {Id(self)})] IN
         IF IsNone(c1.following[self])
         THEN [cols |-> c1, raised |-> "AttributeError"]
         ELSE IF Id(user) \notin Get(c1.following[self])
         THEN [cols |-> c1, raised |-> "KeyError"]
         ELSE [cols |-> [c1 EXCEPT !.following[self] = Some(Get(@) \ {Id(user)})],
               raised |-> ""]

\* Faulty variant of unfollow: self.following is emptied instead of losing
\* one id.
UnfollowClearing(cols, self, user) ==
    IF IsNone(cols.followers[user])
    THEN [cols |-> cols, raised |-> "TypeError"]
    ELSE LET c1 == [cols EXCEPT !.followers[user] = Some(Get(@) \ {Id(self)})] IN
         IF IsNone(c1.following[self])
         THEN [cols |-> c1, raised |-> "TypeError"]
         ELSE [cols |-> [c1 EXCEPT !.following[self] = Some({})], raised |-> ""]

\* User.unfollow, statement by statement: each remove is guarded by a
\* membership test, and "in" on None raises TypeError.
unfollow(cols, self, user) ==
    IF IsNone(cols.followers[user])
    THEN [cols |-> cols, raised |-> "TypeError"]
    ELSE LET c1 == IF Id(self) \in Get(cols.followers[user])
                   THEN [cols EXCEPT !.followers[user] = Some(Get(@) \ {Id(self)})]
                   ELSE cols
         IN
         IF IsNone(c1.following[self])
         THEN [cols |-> c1, raised |-> "TypeError"]
         ELSE [cols |-> IF Id(user) \in Get(c1.following[self])
                        THEN [c1 EXCEPT !.following[self] = Some(Get(@) \ {Id(user)})]
                        ELSE c1,
               raised |-> ""]

\* The kind of the call before this one when it was follow or unfollow with
\* the same two arguments, else "other".
Prior(self, user) ==
    IF last.op \in {"follow", "unfollow"} /\ last.self = self /\ last.user = user
    THEN last.op ELSE "other"

Record(op, self, user, raised, value) ==
    /\ last' = [op |-> op, self |-> self, user |-> user, raised |-> raised,
                value |-> value, prior |-> Prior(self, user)]
    /\ pre' = Columns
    /\ pre2' = IF op \in {"follow", "unfollow"} /\ Prior(self, user) # "other"
               THEN pre ELSE Columns

Follow(self, user) ==
    LET r == follow(Columns, self, user) IN
    /\ followers' = r.cols.followers
    /\ following' = r.cols.following
    /\ Record("follow", self, user, r.raised, 0)
    /\ UNCHANGED codecVars

Unfollow(self, user) ==
    LET r == unfollow(Columns, self, user) IN
    /\ followers' = r.cols.followers
    /\ following' = r.cols.following
    /\ Record("unfollow", self, user, r.raised, 0)
    /\ UNCHANGED codecVars

NumFollowers(u) ==
    LET r == num_followers(followers[u]) IN
    /\ Record("num_followers", u, u, r.raised, r.value)
    /\ UNCHANGED <<followers, following>>
    /\ UNCHANGED codecVars

NumFollowing(u) ==
    LET r == num_following(following[u]) IN
    /\ Record("num_following", u, u, r.raised, r.value)
    /\ UNCHANGED <<followers, following>>
    /\ UNCHANGED codecVars

\* The elements "for item in value" visits; None is never iterated.
Elements(value) == IF IsNone(value) THEN {} ELSE Get(value)

\* A column written to its row and read back: process_bind_param on the way
\* out, in some iteration order, process_result_value on the way in.
Stored(col, order) ==
    process_result_value(coerce, separator, process_bind_param(separator, col, order))

\* What a column may come back as, over the iteration orders.
Reloads(col) == {Stored(col, order) : order \in Orders(Elements(col))}

\* The row of u is flushed and loaded again; both columns pass through the
\* column type.
StoreAndLoad(u) ==
    \E r1 \in Reloads(followers[u]), r2 \in Reloads(following[u]) :
        LET raised == IF r1.raised # "" THEN r1.raised ELSE r2.raised IN
        /\ followers' = IF raised = "" THEN [followers EXCEPT ![u] = Some(r1.value)]
                        ELSE followers
        /\ following' = IF raised = "" THEN [following EXCEPT ![u] = Some(r2.value)]
                        ELSE following
        /\ Record("store_and_load", u, u, raised, 0)
        /\ UNCHANGED codecVars

\* ------------------------------------------- the column type on its own

Idle == [raised |-> "", value |-> {}, token |-> <<>>]

\* process_bind_param on the value bound, in some iteration order.
BindParam ==
    /\ step = "param"
    /\ \E order \in Orders(Elements(param)) :
           text' = process_bind_param(separator, param, order)
    /\ step' = "bound"
    /\ UNCHANGED <<coerce, separator, param, result>>
    /\ UNCHANGED graphVars

\* process_result_value on the column text, whether process_bind_param wrote
\* it ("bound") or it was found in the row ("text").
ResultValue ==
    /\ step \in {"bound", "text"}
    /\ result' = process_result_value(coerce, separator, text)
    /\ step' = IF step = "bound" THEN "loaded" ELSE "decoded"
    /\ UNCHANGED <<coerce, separator, param, text>>
    /\ UNCHANGED graphVars

\* ---------------------------------------------------------- specifications

NoCall == [op |-> "none", self |-> 0, user |-> 0, raised |-> "", value |-> 0,
           prior |-> "other"]

InitGraph(col) ==
    /\ followers = [u \in Users |-> col]
    /\ following = [u \in Users |-> col]
    /\ last = NoCall
    /\ pre = Columns
    /\ pre2 = Columns
    /\ coerce = "int"
    /\ separator = <<" ">>
    /\ param = None
    /\ text = None
    /\ result = Idle
    /\ step = "idle"

\* Rows loaded from storage with nothing in either column:
\* process_result_value has made both the empty set.
Init == InitGraph(Some({}))

\* Rows just constructed and flushed: the id is assigned, and both columns,
\* which have no default, are still None.
InitFresh == InitGraph(None)

\* A value about to be bound, or a text about to be read, under one of the
\* configurations.
InitCodec ==
    /\ coerce \in Coercions
    /\ separator \in Separators
    /\ \/ step = "param" /\ param \in ParamValues /\ text = None
       \/ step = "text" /\ param = None /\ text \in TextValues
    /\ result = Idle
    /\ followers = [u \in Users |-> None]
    /\ following = [u \in Users |-> None]
    /\ last = NoCall
    /\ pre = Columns
    /\ pre2 = Columns

Next ==
    \/ \E self, user \in Users : Follow(self, user)
    \/ \E self, user \in Users : Unfollow(self, user)
    \/ \E u \in Users : NumFollowers(u)
    \/ \E u \in Users : NumFollowing(u)
    \/ \E u \in Users : StoreAndLoad(u)

NextCodec == BindParam \/ ResultValue

Spec == Init /\ [][Next]_vars
SpecFresh == InitFresh /\ [][Next]_vars
SpecCodec == InitCodec /\ [][NextCodec]_vars

\* ------------------------------------------------------- follow graph claims

\* id is in the column (a column that is None holds nothing).
Has(col, id) == ~IsNone(col) /\ id \in Get(col)
IsSet(col) == ~IsNone(col)
\* Both columns of row u are the empty set.
BothEmpty(cols, u) == cols.followers[u] = Some({}) /\ cols.following[u] = Some({})
IsFollowCall == last.op \in {"follow", "unfollow"}

\* C1. Starting from rows whose columns are all the empty set, after any
\* sequence of follow and unfollow calls (self-follows included) B.id is in
\* A.following exactly when A.id is in B.followers, for all rows A and B.
FollowGraphSymmetric ==
    \A a, b \in Users :
        /\ IsSet(following[a]) /\ IsSet(followers[b])
        /\ Id(b) \in Get(following[a]) <=> Id(a) \in Get(followers[b])

\* After an unfollow, with a relationship between two distinct rows and a
\* self-follow both in place.
FollowGraphSymmetricWitness ==
    /\ last.op = "unfollow" /\ last.raised = ""
    /\ \E a, b \in Users :
        /\ a # b
        /\ Id(b) \in Get(following[a]) /\ Id(a) \in Get(followers[b])
        /\ Id(a) \in Get(following[a]) /\ Id(a) \in Get(followers[a])

\* C3. A second follow(A, B) right after the first leaves every column as the
\* first left it; when every column was the empty set before the first,
\* num_following(A) and num_followers(B) are 1 after the second.
FollowIdempotent ==
    (last.op = "follow" /\ last.prior = "follow") =>
        /\ Columns = pre
        /\ (\A u \in Users : BothEmpty(pre2, u)) =>
               /\ num_following(following[last.self]) = [raised |-> "", value |-> 1]
               /\ num_followers(followers[last.user]) = [raised |-> "", value |-> 1]

\* follow(A, B) twice from empty columns, A and B distinct.
FollowIdempotentWitness ==
    /\ last.op = "follow" /\ last.prior = "follow" /\ last.raised = ""
    /\ last.self # last.user
    /\ \A u \in Users : BothEmpty(pre2, u)
    /\ following[last.self] = Some({Id(last.user)})

\* C4. After follow(A, B) and then unfollow(A, B), B.id is not in A.following
\* and A.id is not in B.followers; when both rows' columns were the empty set
\* before the follow, num_following(A) and num_followers(B) are 0.
UnfollowSymmetric ==
    (last.op = "unfollow" /\ last.prior = "follow") =>
        /\ ~Has(following[last.self], Id(last.user))
        /\ ~Has(followers[last.user], Id(last.self))
        /\ (BothEmpty(pre2, last.self) /\ BothEmpty(pre2, last.user)) =>
               /\ num_following(following[last.self]) = [raised |-> "", value |-> 0]
               /\ num_followers(followers[last.user]) = [raised |-> "", value |-> 0]

\* unfollow(A, B) right after a follow(A, B) that took effect from empty columns.
UnfollowSymmetricWitness ==
    /\ last.op = "unfollow" /\ last.prior = "follow" /\ last.raised = ""
    /\ last.self # last.user
    /\ BothEmpty(pre2, last.self) /\ BothEmpty(pre2, last.user)
    /\ Has(pre.following[last.self], Id(last.user))
    /\ Has(pre.followers[last.user], Id(last.self))

\* The two columns a call on (A, B) touches were sets before it.
TouchedWereSets ==
    IsSet(pre.followers[last.user]) /\ IsSet(pre.following[last.self])
AlreadyFollowed ==
    Has(pre.following[last.self], Id(last.user)) /\ Has(pre.followers[last.user], Id(last.self))
NotFollowed ==
    ~Has(pre.followers[last.user], Id(last.self)) \/ ~Has(pre.following[last.self], Id(last.user))
HalfFollowed ==
    Has(pre.followers[last.user], Id(last.self)) # Has(pre.following[last.self], Id(last.user))

\* C5 as stated. follow(A, B) when A already follows B, and unfollow(A, B)
\* when A.id is absent from B.followers and/or B.id is absent from
\* A.following, return without raising, and such an unfollow leaves every
\* column unchanged.
NoRaiseUnfollowUnchanged ==
    /\ (last.op = "follow" /\ AlreadyFollowed) => last.raised = ""
    /\ (last.op = "unfollow" /\ TouchedWereSets /\ NotFollowed) =>
           last.raised = "" /\ Columns = pre

\* C5 amended. The same calls return without raising; such an unfollow
\* removes A.id from B.followers and B.id from A.following, whichever of the
\* two was present, and changes nothing else: nothing at all when both were
\* absent.
NoRaiseUnfollowRemovesHalf ==
    /\ (last.op = "follow" /\ AlreadyFollowed) => last.raised = ""
    /\ (last.op = "unfollow" /\ TouchedWereSets /\ NotFollowed) =>
           /\ last.raised = ""
           /\ Columns =
                [pre EXCEPT !.followers[last.user] = Some(Get(@) \ {Id(last.self)}),
                            !.following[last.self] = Some(Get(@) \ {Id(last.user)})]
           /\ ~HalfFollowed => Columns = pre

\* An unfollow(A, B) that found A.id in B.followers and no B.id in A.following.
NoRaiseUnfollowRemovesHalfWitness ==
    /\ last.op = "unfollow" /\ last.raised = ""
    /\ TouchedWereSets /\ HalfFollowed
    /\ Columns # pre

\* C6. num_followers and num_following return the number of elements of
\* their column, 0 when it is empty and 0 when it is None, and do not raise.
CountsTolerateAbsent ==
    /\ last.op = "num_followers" =>
           /\ last.raised = ""
           /\ last.value = Cardinality(Elements(followers[last.self]))
    /\ last.op = "num_following" =>
           /\ last.raised = ""
           /\ last.value = Cardinality(Elements(following[last.self]))

DefaultConfig == coerce = "int" /\ separator = <<" ">>
NonNegativeInts(S) == \A item \in S : item.t = "int" /\ item.v[1] >= 0
Range(seq) == {seq[i] : i \in 1..Len(seq)}

\* C2. With the default coercion and separator, a set of non-negative
\* integers (the empty set included) comes back from process_result_value as
\* it went into process_bind_param.
CodecRoundTrip ==
    (step = "loaded" /\ DefaultConfig /\ ~IsNone(param) /\ NonNegativeInts(Get(param))) =>
        result.raised = "" /\ result.value = Get(param)

\* A set of one-digit and two-digit integers, 0 among them, made the trip.
CodecRoundTripWitness ==
    /\ step = "loaded" /\ DefaultConfig
    /\ param = Some({IntItem(0), IntItem(7), IntItem(12)})
    /\ Len(Get(text)) = 6
    /\ result.value = Get(param)

\* The pieces of the column text that int() does not accept.
BadTokens ==
    {tok \in Range(Split(Get(text), separator)) : PyInt(tok).raised # ""}

\* C7. Under the int coercion, reading a non-empty text with a piece that is
\* no integer raises an error that names one such piece; no set is returned.
MalformedTextRaises ==
    (step \in {"loaded", "decoded"} /\ coerce = "int" /\ ~IsNone(text)
        /\ Get(text) # <<>> /\ BadTokens # {}) =>
        /\ result.raised = "ValueError"
        /\ result.token \in BadTokens

\* The text "12 x 7" was read and the error names "x".
MalformedTextRaisesWitness ==
    /\ step = "decoded" /\ DefaultConfig
    /\ text = Some(<<"1", "2", " ", "x", " ", "7">>)
    /\ result.raised = "ValueError" /\ result.token = <<"x">>

\* C8. process_bind_param(None) is None; process_result_value of None and of
\* the empty text is the empty set.
CodecNullContract ==
    /\ (step \in {"bound", "loaded"} /\ IsNone(param)) => IsNone(text)
    /\ (step \in {"loaded", "decoded"} /\ (IsNone(text) \/ Get(text) = <<>>)) =>
           result.raised = "" /\ result.value = {}

\* None was bound and read back, or the empty text was read.
CodecNullContractWitness ==
    /\ result.raised = "" /\ result.value = {}
    /\ \/ step = "loaded" /\ IsNone(param) /\ IsNone(text)
       \/ step = "decoded" /\ text = Some(<<>>)

\* C9. Splitting what process_bind_param produced on the separator gives the
\* stripped non-empty string forms of the elements, one piece per element
\* (no piece for the empty text): the separator stands only between elements.
SeparatorOnlyBetweenElements ==
    (step = "bound" /\ ~IsNone(param)) =>
        LET forms == {Strip(PyStr(item)) : item \in Get(param)} \ {<<>>}
            count == Cardinality({item \in Get(param) : Strip(PyStr(item)) # <<>>})
            pieces == IF Get(text) = <<>> THEN <<>> ELSE Split(Get(text), separator)
        IN Len(pieces) = count /\ Range(pieces) = forms

====
